---- MODULE Spec2Model ----
(***************************************************************************)
(* Model of python_utils_AndrewGarwood/pd_utils.py: the key index          *)
(* (map_key_to_row_indices), leaf extraction (regex_utils.extract_leaf),   *)
(* the conflict-aware merge (permuted_key_join, specification Spec), the   *)
(* duplicate rows (extract_duplicate_rows_from_key_map, SpecIndex),        *)
(* extract_leaf on its own (SpecLeaf), the field predicates, update_field, *)
(* extract_rows_with_empty_fields and filter_by_text (SpecFields), and     *)
(* calls in sequence: config.set_enable_detailed_log and a second merge    *)
(* of the merged base (SpecSequence).                                      *)
(*                                                                         *)
(* Strings that the code takes apart (keys, cell values) are sequences of  *)
(* one-character strings; column names are never taken apart and are       *)
(* plain strings.  Row positions are the labels of the default RangeIndex, *)
(* written 1..n here where pandas writes 0..n-1.                           *)
(***************************************************************************)
EXTENDS Integers, Sequences, FiniteSets, TLC

\* ------------------------------------------------------------------ bounds
MaxBaseRows == 2
MaxPermutedRows == 2

\* ------------------------------------------------- names used by the merge
base_key_col == "Item Name/Number"
base_name_col == "Display Name"
permuted_key_col == "Item"
permuted_name_col == "Description"
Account == "Account"
COGS == "COGS Account"
DefaultDelimiter == <<":">>

\* A missing cell: pandas holds float('nan'), which is not a string.
NaN == <<"NaN">>
EmptyStr == <<>>

\* str(x) of a cell: a string is itself, a missing cell prints as 'nan'.
Str(v) == IF v = NaN THEN <<"n", "a", "n">> ELSE v

\* bool(s) of a string: non-empty.
Truthy(s) == s # EmptyStr

\* ------------------------------------------------------------ extract_leaf
\* `delimiter in s`
Contains(s, delimiter) ==
    \E i \in 1..(Len(s) + 1) :
        /\ i + Len(delimiter) - 1 <= Len(s)
        /\ SubSeq(s, i, i + Len(delimiter) - 1) = delimiter

\* start of the last occurrence of delimiter in s (there is one)
LastOccurrence(s, delimiter) ==
    CHOOSE i \in 1..(Len(s) + 1) :
        /\ i + Len(delimiter) - 1 <= Len(s)
        /\ SubSeq(s, i, i + Len(delimiter) - 1) = delimiter
        /\ \A j \in (i + 1)..(Len(s) + 1) :
              ~(/\ j + Len(delimiter) - 1 <= Len(s)
                /\ SubSeq(s, j, j + Len(delimiter) - 1) = delimiter)

\* s.rsplit(delimiter, 1)[-1]: what follows the last occurrence.
RSplitLast(s, delimiter) ==
    SubSeq(s, LastOccurrence(s, delimiter) + Len(delimiter), Len(s))

\* extract_leaf taking what precedes the last delimiter.
extract_leaf_first(s, delimiter) ==
    IF Contains(s, delimiter)
    THEN SubSeq(s, 1, LastOccurrence(s, delimiter) - 1)
    ELSE s

\* What stands for a raised ValueError('empty separator'): str.rsplit
\* refuses an empty separator, and '' is `in` every string.
EmptySeparator == <<"ValueError: empty separator">>

extract_leaf(s, delimiter) ==
    IF Contains(s, delimiter)
    THEN IF delimiter = EmptyStr THEN EmptySeparator
         ELSE RSplitLast(s, delimiter)
    ELSE s

\* ------------------------------------------------------------- has_columns
has_columns(df, cols_to_check) == \A c \in cols_to_check : c \in df.cols

Range(f) == {f[i] : i \in DOMAIN f}

\* -------------------------------------------------- map_key_to_row_indices
\* The dict is kept as its keys in insertion order plus the list per key.
EmptyDict == [order |-> <<>>, at |-> <<>>]

\* DictPut replacing the list of a key already present by [i].
DictPutLast(d, key, i) ==
    [order |-> IF key \in Range(d.order) THEN d.order ELSE Append(d.order, key),
     at |-> [k \in Range(d.order) \cup {key} |->
               IF k = key THEN <<i>> ELSE d.at[k]]]

\* lines 97-100
DictPut(d, key, i) ==
    IF key \in Range(d.order)
    THEN [d EXCEPT !.at =
            [k \in Range(d.order) |->
                IF k = key THEN Append(d.at[k], i) ELSE d.at[k]]]
    ELSE [order |-> Append(d.order, key),
          at |-> [k \in Range(d.order) \cup {key} |->
                    IF k = key THEN <<i>> ELSE d.at[k]]]

\* The label iterrows gives the i-th row: df.index[i].  The tables of the
\* merge carry the default RangeIndex, whose labels are the positions.
RowLabel(df, i) == IF "index" \in DOMAIN df THEN df.index[i] ELSE i

RowKey(df, i, key_col, truncate, delimiter) ==
    IF truncate
    THEN extract_leaf(Str(df.rows[i][key_col]), delimiter)
    ELSE Str(df.rows[i][key_col])

RECURSIVE KeyMapFrom(_, _, _, _, _, _)
KeyMapFrom(df, key_col, truncate, delimiter, i, d) ==
    IF i > Len(df.rows) THEN d
    ELSE KeyMapFrom(df, key_col, truncate, delimiter, i + 1,
                    DictPut(d, RowKey(df, i, key_col, truncate, delimiter),
                            RowLabel(df, i)))

map_key_to_row_indices(df, key_col, truncate, delimiter) ==
    KeyMapFrom(df, key_col, truncate, delimiter, 1, EmptyDict)

\* ------------------------------------------------------------------- state
VARIABLES
    base_df,              \* the base table: [cols, rows]
    permuted_df,          \* the secondary table: [cols, rows]
    cols_to_add,          \* fields_to_copy, an ordered list of column names
    ENABLE_OVERWRITE,     \* pd_utils' copy of config.ENABLE_OVERWRITE
    ENABLE_DETAILED_LOG,  \* pd_utils' copy of config.ENABLE_DETAILED_LOG
    pc,                   \* where permuted_key_join stands
    base_key_map,
    permuted_key_map,
    key_pos,              \* position of the loop in permuted_key_map.keys()
    update_dict,
    processed_keys,
    num_updated,
    num_duplicates,
    num_unmatched_keys,
    log,                  \* the groups print_group has appended to the log file
    base_at_call,         \* base_df as it was handed to permuted_key_join
    config_ENABLE_DETAILED_LOG,  \* config.ENABLE_DETAILED_LOG itself
    call,                 \* the function called and its arguments
    tbl,                  \* the table (or row) handed to that function
    key_map,              \* key_to_row_indices
    ret                   \* what the function returned

vars == <<base_df, permuted_df, cols_to_add, ENABLE_OVERWRITE,
          ENABLE_DETAILED_LOG, pc, base_key_map, permuted_key_map, key_pos,
          update_dict, processed_keys, num_updated, num_duplicates,
          num_unmatched_keys, log, base_at_call, config_ENABLE_DETAILED_LOG,
          call, tbl, key_map, ret>>

locals == <<base_key_map, permuted_key_map, key_pos, update_dict,
            processed_keys, num_updated, num_duplicates, num_unmatched_keys>>

inputs == <<permuted_df, cols_to_add, ENABLE_OVERWRITE, ENABLE_DETAILED_LOG,
            config_ENABLE_DETAILED_LOG, base_at_call>>

\* What the functions other than permuted_key_join work on.
others == <<call, tbl, key_map, ret>>
None == "None"

\* ------------------------------------------------------------------ inputs
BaseKeys == {<<"s">>, <<"t">>}
PermutedKeys == {<<"s">>, <<"X", ":", "s">>, <<"X", ":", "t">>}
BaseValues == {EmptyStr, <<"A">>}
PermutedValues == {EmptyStr, <<"A">>, NaN}
SomeName == <<"N">>
SomeCOGS == <<"C">>
\* fields_to_copy: the list tried on complete tables, and those tried on
\* partial ones.
CopyLists == {<<Account, COGS>>}
MoreCopyLists ==
    CopyLists \cup {<<Account>>, <<COGS, Account>>, <<Account, Account>>, <<>>}

BaseColumns == {base_key_col, base_name_col, Account, COGS}
PermutedColumns == {permuted_key_col, permuted_name_col, Account, COGS}

SeqsUpTo(S, n) == UNION {[1..m -> S] : m \in 1..n}

\* Project a full row on the columns a table has.
Restrict(row, cols) == [c \in cols |-> row[c]]

BaseRow(key, account) ==
    [c \in BaseColumns |->
        CASE c = base_key_col -> key
          [] c = base_name_col -> SomeName
          [] c = Account -> account
          [] OTHER -> EmptyStr]

PermutedRow(key, account) ==
    [c \in PermutedColumns |->
        CASE c = permuted_key_col -> key
          [] c = permuted_name_col -> SomeName
          [] c = Account -> account
          [] OTHER -> SomeCOGS]

\* Tables with every column the merge reads; the base has no COGS column yet.
FullBaseTables ==
    {[cols |-> BaseColumns \ {COGS},
      rows |-> [i \in DOMAIN r |-> Restrict(r[i], BaseColumns \ {COGS})]] :
        r \in SeqsUpTo({BaseRow(k, a) : k \in BaseKeys, a \in BaseValues},
                       MaxBaseRows)}

FullPermutedTables ==
    {[cols |-> PermutedColumns, rows |-> r] :
        r \in SeqsUpTo({PermutedRow(k, a) : k \in PermutedKeys,
                                             a \in PermutedValues},
                       MaxPermutedRows)}

\* Tables that may lack columns, over one fixed content.
PartialBaseTables ==
    {[cols |-> cs,
      rows |-> <<Restrict(BaseRow(<<"s">>, <<"A">>), cs)>>] :
        cs \in SUBSET BaseColumns}

PartialPermutedTables ==
    {[cols |-> cs,
      rows |-> <<Restrict(PermutedRow(<<"s">>, NaN), cs),
                 Restrict(PermutedRow(<<"X", ":", "s">>, <<"A">>), cs),
                 Restrict(PermutedRow(<<"X", ":", "t">>, <<"A">>), cs)>>] :
        cs \in SUBSET PermutedColumns}

EmptyUpdateDict == [p \in {} |-> EmptyStr]

Init ==
    /\ \/ /\ base_df \in FullBaseTables
          /\ permuted_df \in FullPermutedTables
          /\ cols_to_add \in CopyLists
          /\ ENABLE_DETAILED_LOG = TRUE      \* config.py line 7
       \/ /\ base_df \in PartialBaseTables
          /\ permuted_df \in PartialPermutedTables
          /\ cols_to_add \in MoreCopyLists
          /\ ENABLE_DETAILED_LOG \in BOOLEAN
    /\ ENABLE_OVERWRITE \in BOOLEAN
    /\ config_ENABLE_DETAILED_LOG = ENABLE_DETAILED_LOG    \* pd_utils.py line 8
    /\ pc = "call"
    /\ base_key_map = EmptyDict
    /\ permuted_key_map = EmptyDict
    /\ key_pos = 1
    /\ update_dict = EmptyUpdateDict
    /\ processed_keys = {}
    /\ num_updated = 0
    /\ num_duplicates = 0
    /\ num_unmatched_keys = 0
    /\ log = <<>>
    /\ base_at_call = base_df
    /\ call = [fn |-> "permuted_key_join"]
    /\ tbl = None
    /\ key_map = EmptyDict
    /\ ret = None

\* ------------------------------------------------------- permuted_key_join
\* lines 170-173: the column check; on failure the function hands back a
\* ValueError object (`return`, not `raise`).
SchemaOk ==
    /\ has_columns(base_df, {base_key_col})
    /\ has_columns(permuted_df, {permuted_key_col} \cup Range(cols_to_add))

\* AddColumns with the new cells left missing instead of set to ''.
AddColumnsMissing(df, cols) ==
    [cols |-> df.cols \cup cols,
     rows |-> [i \in DOMAIN df.rows |->
                 [c \in df.cols \cup cols |->
                     IF c \in df.cols THEN df.rows[i][c] ELSE NaN]]]

\* lines 174-176: base_df[col] = '' for every col of cols_to_add it lacks.
AddColumns(df, cols) ==
    [cols |-> df.cols \cup cols,
     rows |-> [i \in DOMAIN df.rows |->
                 [c \in df.cols \cup cols |->
                     IF c \in df.cols THEN df.rows[i][c] ELSE EmptyStr]]]

ReturnValueError ==
    /\ pc = "call"
    /\ ~SchemaOk
    /\ pc' = "returned ValueError"
    /\ UNCHANGED <<base_df, log, locals, inputs, others>>

\* lines 174-181: add the columns, clear the locals, build both key maps.
Prepare ==
    /\ pc = "call"
    /\ SchemaOk
    /\ base_df' = AddColumns(base_df, Range(cols_to_add))
    /\ update_dict' = EmptyUpdateDict
    /\ processed_keys' = {}
    /\ num_updated' = 0
    /\ num_duplicates' = 0
    /\ num_unmatched_keys' = 0
    /\ base_key_map' =
          map_key_to_row_indices(base_df', base_key_col, FALSE, DefaultDelimiter)
    /\ permuted_key_map' =
          map_key_to_row_indices(permuted_df, permuted_key_col, FALSE,
                                 DefaultDelimiter)
    /\ key_pos' = 1
    /\ pc' = "classify"
    /\ UNCHANGED <<log, inputs, others>>

\* The key the loop of line 182 stands at, and what lines 183-184 read.
permuted_key == permuted_key_map.order[key_pos]
permuted_index == permuted_key_map.at[permuted_key][1]
leaf_key_untruncated == permuted_key
leaf_key == extract_leaf(permuted_key, DefaultDelimiter)
InBase(leaf) == leaf \in Range(base_key_map.order)

\* is_unique_key_in_base without the length test, and without the test of
\* processed_keys.
is_unique_key_in_base_any_length ==
    /\ InBase(leaf_key)
    /\ leaf_key \notin processed_keys

is_unique_key_in_base_again ==
    /\ InBase(leaf_key)
    /\ Len(base_key_map.at[leaf_key]) = 1

\* lines 185-188

is_unique_key_in_base ==
    /\ InBase(leaf_key)
    /\ Len(base_key_map.at[leaf_key]) = 1
    /\ leaf_key \notin processed_keys

\* ShouldCopy without the comparison of the two values.
ShouldCopyEvenIfSame(base_val, permuted_val) ==
    /\ Truthy(permuted_val)
    /\ (ENABLE_OVERWRITE \/ ~Truthy(base_val))

\* ShouldCopy without the overwrite policy.
ShouldCopyIgnoringPolicy(base_val, permuted_val) ==
    Truthy(permuted_val) /\ base_val # permuted_val

\* lines 194-195: the condition under which a field is copied.

ShouldCopy(base_val, permuted_val) ==
    /\ Truthy(permuted_val) /\ base_val # permuted_val
    /\ (ENABLE_OVERWRITE \/ ~Truthy(base_val))

\* line 209 left out.
NumUpdatedKept(n) == n

\* line 209: num_updated += 1
NumUpdatedNext(n) == n + 1

\* line 207 live: the cell written while the keys are still being read.
WrittenAtOnce(df, d) ==
    [df EXCEPT !.rows =
        [i \in DOMAIN df.rows |->
            [c \in df.cols |->
                IF <<i, c>> \in DOMAIN d THEN d[<<i, c>>] ELSE df.rows[i][c]]]]

\* line 207 is a comment: classification leaves base_df as it is; the
\* values wait in update_dict (line 208).
BaseWhileClassifying(df, d) == df

DictSet(d, key, val) ==
    [p \in DOMAIN d \cup {key} |-> IF p = key THEN val ELSE d[p]]

\* print_group called with print_to_console left True and no log_path: the
\* group goes to the console and the log file is not written.
print_group_to_console(lg, group) == lg

\* write_utils.print_group(label, data, print_to_console=False): the group
\* is appended to the log file.
print_group(lg, group) == Append(lg, group)

\* Reading a name column a table lacks raises KeyError inside the f-string.
NamesReadable(needs_base) ==
    /\ needs_base => base_name_col \in base_df.cols
    /\ permuted_name_col \in permuted_df.cols

\* lines 191-209: the loop over cols_to_add for a unique match, from the j-th
\* column on; acc carries update_dict, num_updated, the log and whether a
\* KeyError has been raised.
RECURSIVE CopyFields(_, _, _, _)
CopyFields(j, base_index, p_index, acc) ==
    IF j > Len(cols_to_add) \/ acc.raised THEN acc
    ELSE
      LET col == cols_to_add[j]
          base_val == Str(base_df.rows[base_index][col])
          permuted_val == Str(permuted_df.rows[p_index][col])
      IN  IF ~ShouldCopy(base_val, permuted_val)
          THEN CopyFields(j + 1, base_index, p_index, acc)
          ELSE IF ENABLE_DETAILED_LOG /\ ~NamesReadable(TRUE)
          THEN [acc EXCEPT !.raised = TRUE]
          ELSE CopyFields(j + 1, base_index, p_index,
                 [upd |-> DictSet(acc.upd, <<base_index, col>>, permuted_val),
                  n |-> NumUpdatedNext(acc.n),
                  log |-> IF ENABLE_DETAILED_LOG
                          THEN print_group(acc.log,
                                 [label |-> "Value Update",
                                  base_row |-> base_index,
                                  leaf_key |-> leaf_key,
                                  base_name |-> base_df.rows[base_index][base_name_col],
                                  permuted_row |-> p_index,
                                  permuted_key |-> permuted_key,
                                  permuted_name |-> permuted_df.rows[p_index][permuted_name_col],
                                  col |-> col,
                                  old |-> base_val,
                                  new |-> permuted_val])
                          ELSE acc.log,
                  raised |-> FALSE])

\* lines 189-210
UniqueMatch ==
    /\ pc = "classify"
    /\ key_pos <= Len(permuted_key_map.order)
    /\ is_unique_key_in_base
    /\ LET base_index == base_key_map.at[leaf_key][1]
           r == CopyFields(1, base_index, permuted_index,
                           [upd |-> update_dict, n |-> num_updated,
                            log |-> log, raised |-> FALSE])
       IN  /\ update_dict' = r.upd
           /\ base_df' = BaseWhileClassifying(base_df, r.upd)
           /\ num_updated' = r.n
           /\ log' = r.log
           /\ IF r.raised
              THEN /\ pc' = "raised KeyError"
                   /\ UNCHANGED <<processed_keys, key_pos>>
              ELSE /\ processed_keys' = processed_keys \cup {leaf_key}
                   /\ key_pos' = key_pos + 1
                   /\ pc' = pc
    /\ UNCHANGED <<base_key_map, permuted_key_map, num_duplicates,
                   num_unmatched_keys, inputs, others>>

\* lines 211-224
RepeatMatch ==
    /\ pc = "classify"
    /\ key_pos <= Len(permuted_key_map.order)
    /\ ~is_unique_key_in_base
    /\ InBase(leaf_key) /\ leaf_key \in processed_keys
    /\ num_duplicates' = num_duplicates + 1
    /\ IF ENABLE_DETAILED_LOG /\ ~NamesReadable(TRUE)
       THEN /\ pc' = "raised KeyError"
            /\ UNCHANGED <<log, key_pos>>
       ELSE /\ log' = IF ENABLE_DETAILED_LOG
                      THEN print_group(log,
                             [label |-> "Duplicate Found",
                              leaf_key |-> leaf_key,
                              base_name |-> base_df.rows[base_key_map.at[leaf_key][1]][base_name_col],
                              permuted_key |-> permuted_key,
                              permuted_name |-> permuted_df.rows[permuted_index][permuted_name_col]])
                      ELSE log
            /\ key_pos' = key_pos + 1
            /\ pc' = pc
    /\ UNCHANGED <<base_df, base_key_map, permuted_key_map, update_dict,
                   processed_keys, num_updated, num_unmatched_keys, inputs, others>>

\* lines 225-238
NoMatch ==
    /\ pc = "classify"
    /\ key_pos <= Len(permuted_key_map.order)
    /\ ~is_unique_key_in_base
    /\ ~(InBase(leaf_key) /\ leaf_key \in processed_keys)
    /\ ~InBase(leaf_key)
    /\ num_unmatched_keys' = num_unmatched_keys + 1
    /\ IF ENABLE_DETAILED_LOG /\ ~NamesReadable(FALSE)
       THEN /\ pc' = "raised KeyError"
            /\ UNCHANGED <<log, key_pos>>
       ELSE /\ log' = IF ENABLE_DETAILED_LOG
                      THEN print_group(log,
                             [label |-> "Key Not Found",
                              leaf_key |-> leaf_key,
                              permuted_key |-> permuted_key,
                              permuted_name |-> permuted_df.rows[permuted_index][permuted_name_col]])
                      ELSE log
            /\ key_pos' = key_pos + 1
            /\ pc' = pc
    /\ UNCHANGED <<base_df, base_key_map, permuted_key_map, update_dict,
                   processed_keys, num_updated, num_duplicates, inputs, others>>

\* lines 182-238 when no branch of the if/elif chain is taken: the leaf is a
\* base key that is not matchable and has not been processed.
PassOver ==
    /\ pc = "classify"
    /\ key_pos <= Len(permuted_key_map.order)
    /\ ~is_unique_key_in_base
    /\ ~(InBase(leaf_key) /\ leaf_key \in processed_keys)
    /\ InBase(leaf_key)
    /\ key_pos' = key_pos + 1
    /\ UNCHANGED <<base_df, pc, log, base_key_map, permuted_key_map,
                   update_dict, processed_keys, num_updated, num_duplicates,
                   num_unmatched_keys, inputs, others>>

\* lines 239-240: base_df.at[index, col] = val for every pending update.
\* ApplyAll with the writes of lines 239-240 left out.
ApplyNothing(df, d) == df

ApplyAll(df, d) ==
    [df EXCEPT !.rows =
        [i \in DOMAIN df.rows |->
            [c \in df.cols |->
                IF <<i, c>> \in DOMAIN d THEN d[<<i, c>>] ELSE df.rows[i][c]]]]

\* lines 239-246
ApplyUpdates ==
    /\ pc = "classify"
    /\ key_pos > Len(permuted_key_map.order)
    /\ base_df' = ApplyAll(base_df, update_dict)
    /\ pc' = "returned base_df"
    /\ UNCHANGED <<log, locals, inputs, others>>

Next ==
    \/ ReturnValueError
    \/ Prepare
    \/ UniqueMatch
    \/ RepeatMatch
    \/ NoMatch
    \/ PassOver
    \/ ApplyUpdates

Spec == Init /\ [][Next]_vars

\* ===================================================================
\* Properties of the merge.  The classification of a secondary key is
\* restated here from the two tables as they were handed in, not from
\* the locals of permuted_key_join.
\* ===================================================================
Returned == pc = "returned base_df"
Classifying == pc = "classify"

PermutedRows == DOMAIN permuted_df.rows
BaseRows == DOMAIN base_at_call.rows
KeyOfPermutedRow(i) == Str(permuted_df.rows[i][permuted_key_col])
KeyOfBaseRow(i) == Str(base_at_call.rows[i][base_key_col])
LeafOfPermutedRow(i) == extract_leaf(KeyOfPermutedRow(i), DefaultDelimiter)
SecondaryKeys == {KeyOfPermutedRow(i) : i \in PermutedRows}
FirstRowOf(k) ==
    CHOOSE i \in PermutedRows :
        /\ KeyOfPermutedRow(i) = k
        /\ \A j \in PermutedRows : KeyOfPermutedRow(j) = k => i <= j
Leaf(k) == extract_leaf(k, DefaultDelimiter)
Earlier(k) == {k2 \in SecondaryKeys : FirstRowOf(k2) < FirstRowOf(k)}
BaseRowsOf(leaf) == {i \in BaseRows : KeyOfBaseRow(i) = leaf}
BaseRowOf(leaf) == CHOOSE i \in BaseRows : KeyOfBaseRow(i) = leaf

IsUniqueMatch(k) ==
    /\ Cardinality(BaseRowsOf(Leaf(k))) = 1
    /\ \A k2 \in Earlier(k) : Leaf(k2) # Leaf(k)
IsRepeatMatch(k) ==
    /\ Cardinality(BaseRowsOf(Leaf(k))) = 1
    /\ \E k2 \in Earlier(k) : Leaf(k2) = Leaf(k)
IsNoMatch(k) == BaseRowsOf(Leaf(k)) = {}
IsAmbiguous(k) == Cardinality(BaseRowsOf(Leaf(k))) >= 2

\* The cell of the base before the merge; a column the base lacked reads ''.
OldCell(r, f) ==
    IF f \in base_at_call.cols THEN base_at_call.rows[r][f] ELSE EmptyStr
SecondaryVal(k, f) == Str(permuted_df.rows[FirstRowOf(k)][f])
\* s is non-empty, differs from b, and the policy allows the write.
MustCopy(k, f) ==
    LET b == Str(OldCell(BaseRowOf(Leaf(k)), f))
        s == SecondaryVal(k, f)
    IN  /\ s # EmptyStr
        /\ s # b
        /\ (ENABLE_OVERWRITE \/ b = EmptyStr)

\* C1: for every secondary key classified as a unique match and every field
\* f of fields_to_copy, a pending update (base_row, f) -> s is recorded if
\* and only if s is non-empty, s # b and (the policy is OVERWRITE_IF_DIFFERENT
\* or b is empty); after the merge the base cell holds s in exactly those
\* cases and its old value otherwise.
C1_UniqueMatchCopy ==
    Returned =>
      \A k \in SecondaryKeys :
        IsUniqueMatch(k) =>
          \A f \in Range(cols_to_add) :
            LET r == BaseRowOf(Leaf(k)) IN
              /\ <<r, f>> \in DOMAIN update_dict <=> MustCopy(k, f)
              /\ MustCopy(k, f) => update_dict[<<r, f>>] = SecondaryVal(k, f)
              /\ base_df.rows[r][f] =
                    IF MustCopy(k, f) THEN SecondaryVal(k, f)
                    ELSE OldCell(r, f)

\* A finished merge under NEVER_OVERWRITE in which one field of a unique
\* match was copied and another was withheld by the policy alone.
C1_Witness ==
    /\ Returned
    /\ ~ENABLE_OVERWRITE
    /\ \E k \in SecondaryKeys :
         /\ IsUniqueMatch(k)
         /\ \E f, g \in Range(cols_to_add) :
              /\ MustCopy(k, f)
              /\ base_df.rows[BaseRowOf(Leaf(k))][f] = SecondaryVal(k, f)
              /\ SecondaryVal(k, g) # EmptyStr
              /\ Str(OldCell(BaseRowOf(Leaf(k)), g)) # EmptyStr
              /\ SecondaryVal(k, g) # Str(OldCell(BaseRowOf(Leaf(k)), g))

\* Rows of the secondary table that come after another row with the same
\* leaf, where that leaf names exactly one base row.
LaterRowsOnOneBaseRow ==
    {i \in PermutedRows :
        /\ Cardinality(BaseRowsOf(LeafOfPermutedRow(i))) = 1
        /\ \E j \in PermutedRows :
              j < i /\ LeafOfPermutedRow(j) = LeafOfPermutedRow(i)}
\* The first row of the secondary table with the given leaf.
FirstRowWithLeaf(leaf) ==
    CHOOSE i \in PermutedRows :
        /\ LeafOfPermutedRow(i) = leaf
        /\ \A j \in PermutedRows : LeafOfPermutedRow(j) = leaf => i <= j
\* Every pending update carries the value of the first secondary row with
\* the leaf of its base row.
OnlyFirstCopied ==
    \A p \in DOMAIN update_dict :
        update_dict[p] =
          Str(permuted_df.rows[FirstRowWithLeaf(KeyOfBaseRow(p[1]))][p[2]])

\* C2 as stated: every secondary ROW after the first that normalizes to the
\* same single base row is counted as a duplicate, and only the first one's
\* fields are copied.
C2_AsStated ==
    Returned =>
      /\ num_duplicates = Cardinality(LaterRowsOnOneBaseRow)
      /\ OnlyFirstCopied

\* C2, amended: every distinct secondary KEY after the first (in first-seen
\* order) whose leaf names the same single base row is counted as a
\* duplicate and copies no field; only the first row of the first such key is
\* copied.  A row repeating the exact key of an earlier row is not looked at.
C2_RepeatKeys ==
    Returned =>
      /\ num_duplicates =
            Cardinality({k \in SecondaryKeys : IsRepeatMatch(k)})
      /\ OnlyFirstCopied

\* A finished merge with a unique match followed by a repeat match whose row
\* would have been copied had it come first.
C2_Witness ==
    /\ Returned
    /\ num_duplicates = 1
    /\ update_dict # EmptyUpdateDict
    /\ \E k \in SecondaryKeys :
         /\ IsRepeatMatch(k)
         /\ \E f \in Range(cols_to_add) :
              /\ SecondaryVal(k, f) # EmptyStr
              /\ <<BaseRowOf(Leaf(k)), f>> \in DOMAIN update_dict
              /\ SecondaryVal(k, f) # update_dict[<<BaseRowOf(Leaf(k)), f>>]

\* The field copies of the unique matches: one for each entry of
\* fields_to_copy (a column listed twice counts twice) whose condition holds.
FieldCopies ==
    {<<k, j>> \in SecondaryKeys \X (1..Len(cols_to_add)) :
        IsUniqueMatch(k) /\ MustCopy(k, cols_to_add[j])}
EnrichedKeys ==
    {k \in SecondaryKeys :
        /\ IsUniqueMatch(k)
        /\ \E f \in Range(cols_to_add) : MustCopy(k, f)}

\* C3 as stated: updated is the number of secondary keys classified as
\* unique matches that were enriched, however many fields were written.
C3_AsStated == Returned => num_updated = Cardinality(EnrichedKeys)

\* C3, amended: updated counts field copies (one per unique-match key and
\* entry of fields_to_copy whose update condition holds), while duplicate and
\* unmatched count secondary keys.
C3_Counters ==
    Returned =>
      /\ num_updated = Cardinality(FieldCopies)
      /\ num_duplicates =
            Cardinality({k \in SecondaryKeys : IsRepeatMatch(k)})
      /\ num_unmatched_keys =
            Cardinality({k \in SecondaryKeys : IsNoMatch(k)})

\* A finished merge in which one key had two fields written, next to a
\* repeat match or a key without a match.
C3_Witness ==
    /\ Returned
    /\ num_updated = 2
    /\ Cardinality(EnrichedKeys) = 1
    /\ num_duplicates + num_unmatched_keys = 1

\* C4: under NEVER_OVERWRITE every base cell that is non-empty before the
\* merge holds the same value in every later state.
C4_NeverOverwrite ==
    ~ENABLE_OVERWRITE =>
      \A r \in BaseRows : \A c \in base_at_call.cols :
        base_at_call.rows[r][c] # EmptyStr =>
          base_df.rows[r][c] = base_at_call.rows[r][c]

\* A finished merge under NEVER_OVERWRITE that filled a cell, with a
\* non-empty base cell facing a different non-empty secondary value.
C4_Witness ==
    /\ Returned
    /\ ~ENABLE_OVERWRITE
    /\ \E p \in DOMAIN update_dict : p[2] \in base_at_call.cols
    /\ \E k \in SecondaryKeys : \E f \in Range(cols_to_add) :
         /\ IsUniqueMatch(k)
         /\ OldCell(BaseRowOf(Leaf(k)), f) # EmptyStr
         /\ SecondaryVal(k, f) # EmptyStr
         /\ SecondaryVal(k, f) # Str(OldCell(BaseRowOf(Leaf(k)), f))

\* C5: while secondary keys are being classified no cell of the base
\* changes, and the pending updates are in the base only once the last key
\* has been classified.
C5_TwoPhase ==
    /\ pc \in {"classify", "raised KeyError"} =>
         \A r \in BaseRows : \A c \in base_df.cols :
            base_df.rows[r][c] = OldCell(r, c)
    /\ Returned =>
         /\ key_pos = Cardinality(SecondaryKeys) + 1
         /\ \A p \in DOMAIN update_dict :
               base_df.rows[p[1]][p[2]] = update_dict[p]

\* In the middle of classification, with an update pending and a key to go.
C5_Witness ==
    /\ Classifying
    /\ update_dict # EmptyUpdateDict
    /\ key_pos <= Cardinality(SecondaryKeys)

\* C6: every secondary key whose leaf is absent from the base index is
\* counted as unmatched and records no pending update; when every key is
\* such a key, the base cells are unchanged and the counters are 0, 0 and
\* the number of distinct secondary keys.
C6_NoMatch ==
    Returned =>
      /\ num_unmatched_keys =
            Cardinality({k \in SecondaryKeys : IsNoMatch(k)})
      /\ \A p \in DOMAIN update_dict :
            \E k \in SecondaryKeys :
               ~IsNoMatch(k) /\ p[1] \in BaseRowsOf(Leaf(k))
      /\ (\A k \in SecondaryKeys : IsNoMatch(k)) =>
            /\ \A r \in BaseRows : \A c \in base_df.cols :
                  base_df.rows[r][c] = OldCell(r, c)
            /\ num_updated = 0
            /\ num_duplicates = 0
            /\ num_unmatched_keys = Cardinality(SecondaryKeys)

\* A finished merge of two distinct keys, neither in the base, whose rows
\* hold values that a match would have copied.
C6_Witness ==
    /\ Returned
    /\ Cardinality(SecondaryKeys) = 2
    /\ \A k \in SecondaryKeys :
         /\ IsNoMatch(k)
         /\ \E f \in Range(cols_to_add) : SecondaryVal(k, f) # EmptyStr
    /\ num_unmatched_keys = 2

\* The key the loop stands at.
CurrentKey ==
    CHOOSE k \in SecondaryKeys : Cardinality(Earlier(k)) + 1 = key_pos

\* C7: a secondary key whose leaf names two or more base rows is stepped
\* over: no pending update, no counter and no audit event changes.
C7_AmbiguousPassedOver ==
    [][(/\ Classifying
        /\ key_pos <= Cardinality(SecondaryKeys)
        /\ IsAmbiguous(CurrentKey))
       => /\ update_dict' = update_dict
          /\ num_updated' = num_updated
          /\ num_duplicates' = num_duplicates
          /\ num_unmatched_keys' = num_unmatched_keys
          /\ log' = log
          /\ base_df' = base_df
          /\ pc' = pc]_vars

\* Just past a key whose leaf names two base rows, with logging on and a
\* value that a unique match would have copied, after an earlier key with the
\* same leaf.
C7_Witness ==
    /\ Classifying
    /\ ENABLE_DETAILED_LOG
    /\ key_pos = 3
    /\ \A k \in SecondaryKeys :
         /\ IsAmbiguous(k)
         /\ \E f \in Range(cols_to_add) : SecondaryVal(k, f) # EmptyStr
    /\ update_dict = EmptyUpdateDict
    /\ log = <<>>

\* The column check of the contract, on the tables as handed in.
SchemaOkAtCall ==
    /\ base_key_col \in base_at_call.cols
    /\ permuted_key_col \in permuted_df.cols
    /\ Range(cols_to_add) \subseteq permuted_df.cols

\* C8: when a required column is missing the merge ends by raising the
\* error, with the base untouched and nothing returned.
C8_SchemaErrorRaised ==
    (pc # "call" /\ ~SchemaOkAtCall) =>
       /\ pc = "raised ValueError"
       /\ base_df = base_at_call

\* C9: once the columns are checked the base has every original column and
\* every column of fields_to_copy, and when classification starts each added
\* column is empty in every row.
C9_ResultColumns ==
    pc \in {"classify", "raised KeyError", "returned base_df"} =>
      /\ base_at_call.cols \subseteq base_df.cols
      /\ Range(cols_to_add) \subseteq base_df.cols
      /\ (Classifying /\ key_pos = 1) =>
            \A c \in Range(cols_to_add) \ base_at_call.cols :
               \A r \in BaseRows : base_df.rows[r][c] = EmptyStr

\* A finished merge whose result has a column the base lacked, next to the
\* columns it had, the new column filled in one row.
C9_Witness ==
    /\ Returned
    /\ COGS \in base_df.cols \ base_at_call.cols
    /\ Account \in base_at_call.cols
    /\ \E p \in DOMAIN update_dict : p[2] = COGS

\* C11: a missing value counts as the empty string.  In the merge: a
\* secondary cell that is missing never gives a pending update.
C11_AbsentTreatedAsEmpty ==
    Returned =>
      \A k \in SecondaryKeys : \A f \in Range(cols_to_add) :
        (IsUniqueMatch(k) /\ permuted_df.rows[FirstRowOf(k)][f] = NaN) =>
           <<BaseRowOf(Leaf(k)), f>> \notin DOMAIN update_dict

\* The audit events of the log with the given label.
EventsLabelled(l) == {i \in DOMAIN log : log[i].label = l}

\* Every value_update event is the event of a field copy and carries its
\* base row, key, field, old and new value; every pending update has one.
ValueUpdatesFollow ==
    LET copies == FieldCopies
        events == EventsLabelled("Value Update")
    IN  /\ Cardinality(events) = Cardinality(copies)
        /\ \A i \in events :
              \E c \in copies :
                 LET k == c[1]
                     f == cols_to_add[c[2]]
                     r == BaseRowOf(Leaf(k))
                 IN  /\ log[i].permuted_key = k
                     /\ log[i].col = f
                     /\ log[i].base_row = r
                     /\ log[i].leaf_key = Leaf(k)
                     /\ log[i].old = Str(OldCell(r, f))
                     /\ log[i].new = SecondaryVal(k, f)
        /\ \A p \in DOMAIN update_dict :
              \E i \in events :
                 /\ log[i].base_row = p[1]
                 /\ log[i].col = p[2]
                 /\ log[i].new = update_dict[p]

\* One duplicate_found event for each repeat match, one key_not_found event
\* for each key without a match, and no event of another kind.
KeyEventsFollow ==
    LET found == EventsLabelled("Duplicate Found")
        missed == EventsLabelled("Key Not Found")
        repeats == {k \in SecondaryKeys : IsRepeatMatch(k)}
        unmatched == {k \in SecondaryKeys : IsNoMatch(k)}
    IN  /\ Cardinality(found) = Cardinality(repeats)
        /\ \A k \in repeats :
              \E i \in found :
                 log[i].permuted_key = k /\ log[i].leaf_key = Leaf(k)
        /\ Cardinality(missed) = Cardinality(unmatched)
        /\ \A k \in unmatched :
              \E i \in missed :
                 log[i].permuted_key = k /\ log[i].leaf_key = Leaf(k)
        /\ \A i \in DOMAIN log :
              log[i].label \in
                 {"Value Update", "Duplicate Found", "Key Not Found"}

MaxRows == 4
OriginalIndex == "Original Index"
ItemKeys == {EmptyStr, <<"s">>, <<"t">>, <<"X", ":", "s">>, NaN}
ItemColumns == {permuted_key_col, permuted_name_col}
Delimiters == {DefaultDelimiter, EmptyStr}

ItemRow(key) ==
    [c \in ItemColumns |-> IF c = permuted_key_col THEN key ELSE SomeName]

\* Tables of up to MaxRows rows, with or without the key column; the labels
\* are the positions (dropped = 0) or those left after an earlier filter
\* dropped the first row of a longer table (dropped = 1).
ItemTables ==
    {[cols |-> cs,
      rows |-> [i \in DOMAIN r |-> Restrict(ItemRow(r[i]), cs)],
      index |-> [i \in DOMAIN r |-> i + dropped]] :
        r \in {<<>>} \cup SeqsUpTo(ItemKeys, MaxRows),
        cs \in {ItemColumns, {permuted_name_col}},
        dropped \in {0, 1}}

merge == <<base_df, permuted_df, cols_to_add, locals, base_at_call>>
flags == <<ENABLE_OVERWRITE, ENABLE_DETAILED_LOG, config_ENABLE_DETAILED_LOG>>

\* permuted_key_join is not running.
NoMerge ==
    /\ base_df = None
    /\ permuted_df = None
    /\ cols_to_add = <<>>
    /\ base_at_call = None
    /\ base_key_map = EmptyDict
    /\ permuted_key_map = EmptyDict
    /\ key_pos = 1
    /\ update_dict = EmptyUpdateDict
    /\ processed_keys = {}
    /\ num_updated = 0
    /\ num_duplicates = 0
    /\ num_unmatched_keys = 0

\* call.df is the table as the caller handed it in, and call.earlier the
\* results of the earlier calls on that same table.
InitIndex ==
    /\ tbl \in ItemTables
    /\ call \in [fn : {"map_key_to_row_indices"},
                 key_col : {permuted_key_col},
                 truncate : BOOLEAN,
                 delimiter : Delimiters,
                 run : {1},
                 df : {tbl},
                 earlier : {<<>>}]
    /\ pc = "call"
    /\ key_map = EmptyDict
    /\ ret = None
    /\ NoMerge
    /\ ENABLE_OVERWRITE = FALSE       \* config.py line 6
    /\ ENABLE_DETAILED_LOG = TRUE     \* config.py line 7
    /\ config_ENABLE_DETAILED_LOG = ENABLE_DETAILED_LOG    \* pd_utils.py line 8
    /\ log = <<>>

\* extract_leaf raises for some row of df.
RaisesInExtractLeaf(df, key_col, truncate, delimiter) ==
    /\ truncate
    /\ \E i \in DOMAIN df.rows :
          RowKey(df, i, key_col, truncate, delimiter) = EmptySeparator

\* lines 91-101: the column check, then the key map.
\* extract_permuted_key_rows makes this call with truncate=True and hands
\* the map to extract_duplicate_rows_from_key_map (lines 134-141).
MapKeys ==
    /\ pc = "call"
    /\ call.fn = "map_key_to_row_indices"
    /\ IF \/ ~has_columns(tbl, {call.key_col})
          \/ RaisesInExtractLeaf(tbl, call.key_col, call.truncate,
                                 call.delimiter)
       THEN /\ pc' = "raised ValueError"
            /\ key_map' = key_map
       ELSE /\ key_map' = map_key_to_row_indices(tbl, call.key_col,
                                                  call.truncate, call.delimiter)
            /\ pc' = "indexed"
    /\ UNCHANGED <<call, tbl, ret, merge, flags, log>>

\* line 107: df.insert(loc=1, column='Original Index', value=df.index), on
\* the table handed in.
InsertOriginalIndex(df) ==
    [df EXCEPT
       !.cols = @ \cup {OriginalIndex},
       !.rows = [i \in DOMAIN df.rows |->
                   [c \in df.cols \cup {OriginalIndex} |->
                       IF c = OriginalIndex THEN df.index[i]
                       ELSE df.rows[i][c]]]]

RECURSIVE DuplicateIndicesFrom(_, _)
DuplicateIndicesFrom(d, j) ==
    IF j > Len(d.order) THEN <<>>
    ELSE (IF Len(d.at[d.order[j]]) > 1 THEN d.at[d.order[j]] ELSE <<>>)
         \o DuplicateIndicesFrom(d, j + 1)

\* duplicate_row_indices put in increasing order.
duplicate_row_indices_sorted(d) ==
    SortSeq(DuplicateIndicesFrom(d, 1), LAMBDA a, b : a < b)

\* lines 108-111: the lists longer than one, in the order of the dict.
duplicate_row_indices(d) == DuplicateIndicesFrom(d, 1)

\* df.iloc[positions]: the rows at those positions, with their labels.
ILoc(df, positions) ==
    [cols |-> df.cols,
     rows |-> [j \in DOMAIN positions |-> df.rows[positions[j]]],
     index |-> [j \in DOMAIN positions |-> df.index[positions[j]]]]

\* lines 103-113.  insert refuses a column the table already has
\* (ValueError); iloc refuses a position past the last row (IndexError),
\* after the column has been inserted.
ExtractDuplicates ==
    /\ pc = "indexed"
    /\ IF OriginalIndex \in tbl.cols
       THEN /\ pc' = "raised ValueError"
            /\ UNCHANGED <<tbl, ret>>
       ELSE /\ tbl' = InsertOriginalIndex(tbl)
            /\ LET positions == duplicate_row_indices(key_map)
               IN  IF \E j \in DOMAIN positions :
                         positions[j] > Len(tbl.rows)
                   THEN /\ pc' = "raised IndexError"
                        /\ ret' = ret
                   ELSE /\ ret' = ILoc(tbl', positions)
                        /\ pc' = "returned"
    /\ UNCHANGED <<call, key_map, merge, flags, log>>

\* The caller takes the table it got back and indexes it again by the same
\* key column, as extract_permuted_key_rows would.
RunAgain ==
    /\ pc = "returned"
    /\ call.run = 1
    /\ tbl' = ret
    /\ call' = [call EXCEPT !.run = 2, !.df = ret, !.earlier = <<>>]
    /\ key_map' = EmptyDict
    /\ ret' = None
    /\ pc' = "call"
    /\ UNCHANGED <<merge, flags, log>>

\* The caller makes the same call once more on the table it handed in the
\* first time: the same object, as line 107 left it.
CallAgain ==
    /\ pc = "returned"
    /\ call.earlier = <<>>
    /\ call' = [call EXCEPT !.earlier = <<ret>>]
    /\ key_map' = EmptyDict
    /\ ret' = None
    /\ pc' = "call"
    /\ UNCHANGED <<tbl, merge, flags, log>>

NextIndex ==
    \/ MapKeys
    \/ ExtractDuplicates
    \/ RunAgain
    \/ CallAgain

SpecIndex == InitIndex /\ [][NextIndex]_vars

\* ------------------------------------------- properties of the key index
Indexed == pc = "indexed"
DuplicatesReturned == pc = "returned"
Positions == DOMAIN tbl.rows
PositionOf(label) == CHOOSE i \in DOMAIN tbl.index : tbl.index[i] = label
KeyOfRow(i) ==
    RowKey(tbl, i, call.key_col, call.truncate, call.delimiter)
IndexKeys == Range(key_map.order)
ListedUnder(k) == Range(key_map.at[k])
Listed == UNION {ListedUnder(k) : k \in IndexKeys}
\* The places of the index that hold x.
Occurrences(x) ==
    {kj \in UNION {{<<k, j>> : j \in DOMAIN key_map.at[k]} : k \in IndexKeys} :
        key_map.at[kj[1]][kj[2]] = x}

InLongLists == UNION {ListedUnder(k) : k \in {q \in IndexKeys : Len(key_map.at[q]) > 1}}

\* C13: duplicates(T, K), K built from T, returns exactly the rows of T
\* whose position lies in a list of K longer than one, each once, each
\* with original_index equal to its position in T; an empty K gives an
\* empty result.
C13_DuplicateRows ==
    (call.run = 1 /\ pc \in {"returned", "raised IndexError"}) =>
      /\ DuplicatesReturned
      /\ Len(ret.rows) = Cardinality(InLongLists)
      /\ {ret.rows[j][OriginalIndex] : j \in DOMAIN ret.rows} = InLongLists
      /\ \A j \in DOMAIN ret.rows :
            LET p == ret.rows[j][OriginalIndex]
            IN  p \in Positions /\ ret.rows[j] = tbl.rows[p]
      /\ key_map.order = <<>> => ret.rows = <<>>

BucketOf(p) == CHOOSE k \in IndexKeys : p \in ListedUnder(k)
Rank(k) == CHOOSE j \in DOMAIN key_map.order : key_map.order[j] = k

C15_Idempotent ==
    call.run = 2 =>
      /\ pc \notin {"raised ValueError", "raised IndexError"}
      /\ DuplicatesReturned => ret.rows = tbl.rows

\* C23: duplicate detection does not alter its input: when it returns, the
\* table handed in has the columns and the cells it had before the call,
\* and a further call on the same table completes and returns what the
\* first call returned.
C23_InputUnaltered ==
    /\ DuplicatesReturned => tbl = call.df
    /\ (call.earlier # <<>> /\ pc \notin {"call", "indexed"}) =>
          /\ DuplicatesReturned
          /\ ret = call.earlier[1]

\* ===================================================================
\* regex_utils.extract_leaf called on its own.
\* ===================================================================
MaxKeyLen == 3
MaxDelimiterLen == 2
KeyChars == {"a", ":", "/"}
DelimiterChars == {":", "/"}
LeafKeys == {EmptyStr} \cup SeqsUpTo(KeyChars, MaxKeyLen)
LeafDelimiters == {EmptyStr} \cup SeqsUpTo(DelimiterChars, MaxDelimiterLen)

InitLeaf ==
    /\ call \in [fn : {"extract_leaf"}, s : LeafKeys, delimiter : LeafDelimiters]
    /\ tbl = None
    /\ pc = "call"
    /\ key_map = EmptyDict
    /\ ret = None
    /\ NoMerge
    /\ ENABLE_OVERWRITE = FALSE
    /\ ENABLE_DETAILED_LOG = TRUE
    /\ config_ENABLE_DETAILED_LOG = ENABLE_DETAILED_LOG    \* pd_utils.py line 8
    /\ log = <<>>

\* regex_utils.py lines 5-6
ExtractLeaf ==
    /\ pc = "call"
    /\ call.fn = "extract_leaf"
    /\ LET r == extract_leaf(call.s, call.delimiter)
       IN  IF r = EmptySeparator
           THEN pc' = "raised ValueError" /\ ret' = ret
           ELSE pc' = "returned" /\ ret' = r
    /\ UNCHANGED <<call, tbl, key_map, merge, flags, log>>

NextLeaf == ExtractLeaf

SpecLeaf == InitLeaf /\ [][NextLeaf]_vars

\* C16: for every key and every delimiter extract_leaf returns a string and
\* does not raise: what follows the last occurrence of the delimiter in
\* the key, or the key itself when the delimiter does not occur in it.
C16_Total ==
    (call.fn = "extract_leaf" /\ pc # "call") =>
      /\ pc = "returned"
      /\ ret = IF Contains(call.s, call.delimiter)
               THEN RSplitLast(call.s, call.delimiter)
               ELSE call.s

\* ===================================================================
\* The field predicates (field_equals, field_startswith, field_contains),
\* update_field and extract_rows_with_empty_fields.
\* ===================================================================
MaxValueLen == 2
MaxFieldRows == 2
MaxConditions == 2
Class == "Class"
Missing == "Missing"
Raised(error) == [raised |-> error]
Value(v) == [value |-> v]

\* str.lower()
Lower(s) == [i \in DOMAIN s |-> IF s[i] = "A" THEN "a" ELSE s[i]]
LowerAll(target) == [j \in DOMAIN target |-> Lower(target[j])]

\* str(row[target_field]) if target_field in row.index else ''
FieldVal(row, target_field) ==
    IF target_field \in DOMAIN row THEN Str(row[target_field]) ELSE EmptyStr

\* s.startswith(t)
StartsWith(s, t) == Len(t) <= Len(s) /\ SubSeq(s, 1, Len(t)) = t

\* lines 336-348.  The branch taken when case_sensitive is true lowers both
\* sides.
field_equals(row, case_sensitive, target_field, target) ==
    LET field_val == IF case_sensitive
                     THEN Lower(FieldVal(row, target_field))
                     ELSE FieldVal(row, target_field)
        targets == IF case_sensitive THEN LowerAll(target) ELSE target
    IN  IF targets # <<>> /\ Truthy(field_val)
        THEN \E j \in DOMAIN targets : targets[j] = field_val
        ELSE FALSE

\* lines 358-370.  With case_insensitive true, target is rebuilt as a list,
\* and str.startswith takes a str or a tuple of str only: TypeError.
field_startswith(row, case_insensitive, target_field, target) ==
    LET field_val == IF case_insensitive
                     THEN Lower(FieldVal(row, target_field))
                     ELSE FieldVal(row, target_field)
    IN  IF target # <<>> /\ Truthy(field_val)
        THEN IF case_insensitive THEN Raised("TypeError")
             ELSE Value(\E j \in DOMAIN target :
                          StartsWith(field_val, target[j]))
        ELSE Value(FALSE)

\* lines 372-384
field_contains(row, case_insensitive, target_field, target) ==
    LET field_val == IF case_insensitive
                     THEN Lower(FieldVal(row, target_field))
                     ELSE FieldVal(row, target_field)
        targets == IF case_insensitive THEN LowerAll(target) ELSE target
    IN  IF targets # <<>> /\ Truthy(field_val)
        THEN \E j \in DOMAIN targets : Contains(field_val, targets[j])
        ELSE FALSE

\* FieldCondition.check_row(row): a condition names the field its criterion
\* reads and is true of a row or not by the value of that field.
check_row(c, row) == row[c.field] \in c.accepts

\* bool(cell): '' is false; a missing cell (float nan) is true.
CellTruthy(v) == v # EmptyStr

\* lines 305-307
UpdateColsToCheck ==
    {call.conditions[j].field : j \in DOMAIN call.conditions}
       \cup {call.update_field, call.key_col, call.name_col}

\* lines 311-317: the rows some condition is true of, among those whose
\* cell may be written.
RowsToUpdate(df) ==
    {i \in DOMAIN df.rows :
        /\ \E j \in DOMAIN call.conditions :
              check_row(call.conditions[j], df.rows[i])
        /\ (ENABLE_OVERWRITE \/ ~CellTruthy(df.rows[i][call.update_field]))}

\* line 313 true for some row: update_dict has its one entry.
SomeRowChecked(df) ==
    \E i \in DOMAIN df.rows : \E j \in DOMAIN call.conditions :
        check_row(call.conditions[j], df.rows[i])

\* line 333: df.loc[indices, field] = val
SetRows(df, indices, field, val) ==
    [df EXCEPT !.rows =
        [i \in DOMAIN df.rows |->
            IF i \in indices THEN [df.rows[i] EXCEPT ![field] = val]
            ELSE df.rows[i]]]

\* lines 409, 414: '|'.join(filter_values)
Join(values) ==
    LET RECURSIVE JoinFrom(_)
        JoinFrom(j) ==
            IF j > Len(values) THEN EmptyStr
            ELSE IF j = Len(values) THEN values[j]
            ELSE values[j] \o <<"|">> \o JoinFrom(j + 1)
    IN  JoinFrom(1)

\* The alternatives of a pattern: what stands between two bars, or between
\* a bar and an end of the pattern.  The pattern '' has the one
\* alternative ''.
Alternatives(pattern) ==
    {SubSeq(pattern, a, b - 1) :
        <<a, b>> \in {<<a, b>> \in (1..Len(pattern) + 1) \X (1..Len(pattern) + 1) :
            /\ a <= b
            /\ a = 1 \/ pattern[a - 1] = "|"
            /\ b = Len(pattern) + 1 \/ pattern[b] = "|"
            /\ \A k \in a..(b - 1) : pattern[k] # "|"}}

\* lines 410-412, 415-417: Series.str.contains(pat, case, na=False,
\* regex=True) of one cell.  A missing cell contains nothing; without case
\* the letters of both sides are folded.
str_contains(v, pat, case) ==
    /\ v # NaN
    /\ \E alt \in Alternatives(pat) :
          IF case THEN Contains(v, alt) ELSE Contains(Lower(v), Lower(alt))

\* lines 408-417: the rows left by the keep masks and then the discard
\* masks, in the order of the table.
FilteredRows(df, keep, discard, case_sensitive) ==
    SelectSeq([i \in DOMAIN df.rows |-> i],
              LAMBDA i :
                /\ \A c \in DOMAIN keep :
                      str_contains(df.rows[i][c], Join(keep[c]), case_sensitive)
                /\ \A c \in DOMAIN discard :
                      ~str_contains(df.rows[i][c], Join(discard[c]),
                                    case_sensitive))

\* ------------------------------------------------------------------ inputs
CaseValues == {EmptyStr, NaN} \cup SeqsUpTo({"a", "A"}, MaxValueLen)
Targets == SeqsUpTo({"a", "A"}, MaxValueLen)
TargetLists ==
    {<<>>} \cup {<<t>> : t \in Targets} \cup {<<t, u>> : t, u \in Targets}
SeriesRows == {[c \in {base_name_col} |-> v] : v \in CaseValues}

FieldColumns == {base_key_col, base_name_col, Class}
FieldRow(name, class) ==
    [c \in FieldColumns |->
        CASE c = base_key_col -> <<"s">>
          [] c = base_name_col -> name
          [] OTHER -> class]
FieldTables ==
    {[cols |-> cs,
      rows |-> [i \in DOMAIN r |-> Restrict(r[i], cs)]] :
        r \in {<<>>} \cup
              SeqsUpTo({FieldRow(n, c) : n \in {<<"a">>, <<"A">>},
                                         c \in {EmptyStr, <<"Q">>, NaN}},
                       MaxFieldRows),
        cs \in {FieldColumns, FieldColumns \ {Class}}}
FieldConditions ==
    {[field |-> base_name_col, accepts |-> A] : A \in SUBSET {<<"a">>, <<"A">>}}
       \cup {[field |-> Missing, accepts |-> {}]}
ConditionLists == {<<>>} \cup SeqsUpTo(FieldConditions, MaxConditions)
FieldLists == {<<Class>>, <<Class, base_name_col>>, <<Missing>>}
PatternLists == {<<>>, <<<<"a">>>>, <<<<"Q">>>>, <<<<"a">>, <<"Q">>>>}
KeepDicts ==
    UNION {[cs -> PatternLists] : cs \in SUBSET {base_name_col, Class}}
DiscardDicts ==
    UNION {[cs -> PatternLists] : cs \in {{}, {base_name_col}, {Class}}}

InitFields ==
    /\ \/ /\ call \in [fn : {"field_equals", "field_startswith",
                              "field_contains"},
                        toggle : BOOLEAN,
                        target_field : {base_name_col, Missing},
                        target : TargetLists]
          /\ tbl \in SeriesRows
          /\ ENABLE_OVERWRITE = FALSE
          /\ ENABLE_DETAILED_LOG = TRUE
       \/ /\ call \in [fn : {"update_field"},
                        df : FieldTables,
                        update_field : {Class},
                        update_val : {<<"P">>},
                        conditions : ConditionLists,
                        key_col : {base_key_col},
                        name_col : {base_name_col}]
          /\ tbl = call.df
          /\ ENABLE_OVERWRITE \in BOOLEAN
          /\ ENABLE_DETAILED_LOG \in BOOLEAN
       \/ /\ call \in [fn : {"extract_rows_with_empty_fields"},
                        df : FieldTables,
                        fields : FieldLists]
          /\ tbl = call.df
          /\ ENABLE_OVERWRITE = FALSE
          /\ ENABLE_DETAILED_LOG = TRUE
       \/ /\ call \in [fn : {"filter_by_text"},
                        df : FieldTables,
                        keep : KeepDicts,
                        discard : DiscardDicts,
                        case_sensitive : BOOLEAN]
          /\ tbl = call.df
          /\ ENABLE_OVERWRITE = FALSE
          /\ ENABLE_DETAILED_LOG = TRUE
    /\ config_ENABLE_DETAILED_LOG = ENABLE_DETAILED_LOG    \* pd_utils.py line 8
    /\ pc = "call"
    /\ key_map = EmptyDict
    /\ ret = None
    /\ NoMerge
    /\ log = <<>>

\* lines 336-348
FieldEquals ==
    /\ pc = "call"
    /\ call.fn = "field_equals"
    /\ ret' = field_equals(tbl, call.toggle, call.target_field, call.target)
    /\ pc' = "returned"
    /\ UNCHANGED <<call, tbl, key_map, merge, flags, log>>

\* lines 358-370
FieldStartswith ==
    /\ pc = "call"
    /\ call.fn = "field_startswith"
    /\ LET r == field_startswith(tbl, call.toggle, call.target_field,
                                 call.target)
       IN  IF "raised" \in DOMAIN r
           THEN pc' = "raised TypeError" /\ ret' = ret
           ELSE pc' = "returned" /\ ret' = r.value
    /\ UNCHANGED <<call, tbl, key_map, merge, flags, log>>

\* lines 372-384
FieldContains ==
    /\ pc = "call"
    /\ call.fn = "field_contains"
    /\ ret' = field_contains(tbl, call.toggle, call.target_field, call.target)
    /\ pc' = "returned"
    /\ UNCHANGED <<call, tbl, key_map, merge, flags, log>>

\* lines 305-334.  On a missing column the ValueError is handed back, not
\* raised (line 309); the table is written in place and handed back.
UpdateField ==
    /\ pc = "call"
    /\ call.fn = "update_field"
    /\ IF ~has_columns(tbl, UpdateColsToCheck)
       THEN /\ pc' = "returned ValueError"
            /\ UNCHANGED <<tbl, ret, log>>
       ELSE LET indices == RowsToUpdate(tbl)
            IN  /\ log' = IF SomeRowChecked(tbl) /\ ENABLE_DETAILED_LOG
                          THEN print_group(log,
                                 [label |-> "Updating",
                                  field |-> call.update_field,
                                  val |-> call.update_val,
                                  count |-> Cardinality(indices),
                                  rows |-> indices])
                          ELSE log
                /\ tbl' = SetRows(tbl, indices, call.update_field,
                                  call.update_val)
                /\ ret' = tbl'
                /\ pc' = "returned"
    /\ UNCHANGED <<call, key_map, merge, flags>>

\* lines 262-267: the rows with a false cell in one of the fields.
EmptyRows(df, fields) ==
    SelectSeq([i \in DOMAIN df.rows |-> i],
              LAMBDA i : \E j \in DOMAIN fields :
                            ~CellTruthy(df.rows[i][fields[j]]))

\* lines 260-268.  On a missing column the ValueError is handed back, not
\* raised (line 261).
ExtractRowsWithEmptyFields ==
    /\ pc = "call"
    /\ call.fn = "extract_rows_with_empty_fields"
    /\ IF ~has_columns(tbl, Range(call.fields))
       THEN /\ pc' = "returned ValueError"
            /\ ret' = ret
       ELSE /\ ret' = [cols |-> tbl.cols,
                       rows |-> [j \in DOMAIN EmptyRows(tbl, call.fields) |->
                                   tbl.rows[EmptyRows(tbl, call.fields)[j]]],
                       index |-> EmptyRows(tbl, call.fields)]
            /\ pc' = "returned"
    /\ UNCHANGED <<call, tbl, key_map, merge, flags, log>>

\* lines 405-419.  The masks select into new tables; the table handed in
\* is left as it was.
FilterByText ==
    /\ pc = "call"
    /\ call.fn = "filter_by_text"
    /\ IF ~has_columns(tbl, DOMAIN call.keep \cup DOMAIN call.discard)
       THEN /\ pc' = "raised ValueError"
            /\ ret' = ret
       ELSE LET kept == FilteredRows(tbl, call.keep, call.discard,
                                     call.case_sensitive)
            IN  /\ ret' = [cols |-> tbl.cols,
                           rows |-> [j \in DOMAIN kept |-> tbl.rows[kept[j]]],
                           index |-> kept]
                /\ pc' = "returned"
    /\ UNCHANGED <<call, tbl, key_map, merge, flags, log>>

NextFields ==
    \/ FieldEquals
    \/ FieldStartswith
    \/ FieldContains
    \/ UpdateField
    \/ ExtractRowsWithEmptyFields
    \/ FilterByText

SpecFields == InitFields /\ [][NextFields]_vars

\* ---------------------------------------- properties of the field functions
Predicates == {"field_equals", "field_startswith", "field_contains"}

\* The call names a column its row or table does not have.
UnknownColumnGiven ==
    CASE call.fn \in Predicates -> call.target_field \notin DOMAIN tbl
      [] call.fn = "update_field" -> ~(UpdateColsToCheck \subseteq call.df.cols)
      [] call.fn = "extract_rows_with_empty_fields" ->
            ~(Range(call.fields) \subseteq call.df.cols)
      [] OTHER -> FALSE

\* C18: a field predicate, update_field or extract_rows_with_empty_fields
\* given a column name that its row or table does not have ends by raising
\* a schema error; it returns neither a boolean, nor a table, nor an error
\* object.
C18_UnknownColumnRaises ==
    (pc # "call" /\ UnknownColumnGiven) => pc = "raised ValueError"

\* C19: field_equals with case_sensitive true is true only on an exact
\* match with a target, letter case included, and with case_sensitive
\* false it is true exactly on a match that ignores letter case;
\* field_startswith and field_contains return a boolean for either setting
\* of their toggle and do not raise.
C19_CaseToggle ==
    (call.fn \in Predicates /\ pc # "call") =>
      /\ pc = "returned"
      /\ ret \in BOOLEAN
      /\ (call.fn = "field_equals" /\ call.toggle) =>
            (ret => \E j \in DOMAIN call.target :
                       call.target[j] = FieldVal(tbl, call.target_field))
      /\ (call.fn = "field_equals" /\ ~call.toggle) =>
            (ret <=> \E j \in DOMAIN call.target :
                        /\ FieldVal(tbl, call.target_field) # EmptyStr
                        /\ Lower(call.target[j]) =
                              Lower(FieldVal(tbl, call.target_field)))

\* Every condition of the list is true of row i of the table handed in.
AllConditionsMet(i) ==
    \A j \in DOMAIN call.conditions :
        check_row(call.conditions[j], call.df.rows[i])

\* C20: update_field writes update_val only into rows of which all the
\* conditions are true: a row of which some condition is false keeps its
\* value, and with overwriting off so does a row whose cell is not empty.
C20_AllConditions ==
    (call.fn = "update_field" /\ pc = "returned") =>
      \A i \in DOMAIN call.df.rows :
        LET old == call.df.rows[i][call.update_field]
            new == tbl.rows[i][call.update_field]
        IN  /\ ~AllConditionsMet(i) => new = old
            /\ (~ENABLE_OVERWRITE /\ old # EmptyStr) => new = old
            /\ new # old => new = call.update_val

\* Cell v holds the text of pattern p, letter case counting or not as the
\* call asks.
HoldsPattern(v, p) ==
    /\ v # NaN
    /\ IF call.case_sensitive THEN Contains(v, p)
       ELSE Contains(Lower(v), Lower(p))

\* The rows of the table handed in that hold a keep pattern in every
\* column of keep and no discard pattern in any column of discard.
RowsAsked ==
    SelectSeq([i \in DOMAIN call.df.rows |-> i],
              LAMBDA i :
                /\ \A c \in DOMAIN call.keep :
                      \E j \in DOMAIN call.keep[c] :
                         HoldsPattern(call.df.rows[i][c], call.keep[c][j])
                /\ \A c \in DOMAIN call.discard :
                      \A j \in DOMAIN call.discard[c] :
                         ~HoldsPattern(call.df.rows[i][c], call.discard[c][j]))

\* C21: filter_by_text returns exactly the rows that hold at least one
\* keep pattern in every column listed in keep and no discard pattern in
\* any column listed in discard, in their original order (so a row that
\* matches both a keep and a discard pattern is left out), and the rows of
\* the table handed in are not modified.
C21_ExactlyTheRowsAsked ==
    (call.fn = "filter_by_text" /\ pc = "returned") =>
      /\ ret.index = RowsAsked
      /\ ret.rows = [j \in DOMAIN RowsAsked |-> call.df.rows[RowsAsked[j]]]
      /\ tbl = call.df

\* ===================================================================
\* Calls in sequence: config.set_enable_detailed_log between calls, and
\* permuted_key_join called a second time on the base it handed back, with
\* the same secondary table and the same fields_to_copy.
\* ===================================================================
MaxSequenceBaseRows == 2
MaxSequencePermutedRows == 1

SequenceBaseTables ==
    {[cols |-> BaseColumns \ {COGS},
      rows |-> [i \in DOMAIN r |-> Restrict(r[i], BaseColumns \ {COGS})]] :
        r \in SeqsUpTo({BaseRow(k, a) : k \in BaseKeys, a \in BaseValues},
                       MaxSequenceBaseRows)}

SequencePermutedTables ==
    {[cols |-> PermutedColumns, rows |-> r] :
        r \in SeqsUpTo({PermutedRow(k, a) : k \in PermutedKeys,
                                             a \in PermutedValues},
                       MaxSequencePermutedRows)}

\* call.run counts the calls of permuted_key_join; call.logged is the
\* length the log file had when the running call was made.
InitSequence ==
    /\ \/ /\ base_df \in SequenceBaseTables
          /\ permuted_df \in SequencePermutedTables
          /\ cols_to_add \in CopyLists
          /\ ENABLE_DETAILED_LOG = TRUE      \* config.py line 7
       \/ /\ base_df \in PartialBaseTables
          /\ permuted_df \in PartialPermutedTables
          /\ cols_to_add \in MoreCopyLists
          /\ ENABLE_DETAILED_LOG \in BOOLEAN
    /\ ENABLE_OVERWRITE \in BOOLEAN
    /\ config_ENABLE_DETAILED_LOG = ENABLE_DETAILED_LOG    \* pd_utils.py line 8
    /\ pc = "call"
    /\ base_key_map = EmptyDict
    /\ permuted_key_map = EmptyDict
    /\ key_pos = 1
    /\ update_dict = EmptyUpdateDict
    /\ processed_keys = {}
    /\ num_updated = 0
    /\ num_duplicates = 0
    /\ num_unmatched_keys = 0
    /\ log = <<>>
    /\ base_at_call = base_df
    /\ call = [fn |-> "permuted_key_join", run |-> 1, logged |-> 0]
    /\ tbl = None
    /\ key_map = EmptyDict
    /\ ret = None

\* config.py lines 10-18: `global ENABLE_DETAILED_LOG` names the global of
\* config; the name pd_utils bound at its line 8 is another variable and
\* keeps the value it was given at import.
set_enable_detailed_log(enable) ==
    /\ config_ENABLE_DETAILED_LOG' = enable
    /\ UNCHANGED ENABLE_DETAILED_LOG

\* The caller sets the toggle between two operations.
SetEnableDetailedLog ==
    /\ pc = "call"
    /\ \E enable \in BOOLEAN : set_enable_detailed_log(enable)
    /\ UNCHANGED <<pc, base_df, permuted_df, cols_to_add, ENABLE_OVERWRITE,
                   locals, log, base_at_call, others>>

\* The caller hands the merged base back to permuted_key_join.
MergeAgain ==
    /\ pc = "returned base_df"
    /\ call.run = 1
    /\ call' = [call EXCEPT !.run = 2, !.logged = Len(log)]
    /\ base_at_call' = base_df
    /\ pc' = "call"
    /\ UNCHANGED <<base_df, permuted_df, cols_to_add, flags, locals, log, tbl,
                   key_map, ret>>

NextSequence ==
    \/ Next
    \/ SetEnableDetailedLog
    \/ MergeAgain

SpecSequence == InitSequence /\ [][NextSequence]_vars

C24_ToggleTakesEffect ==
    /\ (pc # "call" /\ ~config_ENABLE_DETAILED_LOG) =>
          Len(log) = call.logged
    /\ (Returned /\ config_ENABLE_DETAILED_LOG
           /\ num_updated + num_duplicates + num_unmatched_keys > 0) =>
          Len(log) > call.logged

====
